---- MODULE Spec2Model ----
(***************************************************************************)
(* FlowPipeAI: the flow execution engine (utils/flowEngine: executeFlow,   *)
(* processBatch, processData) and the part of App.tsx that calls it pass   *)
(* after pass.                                                             *)
(*                                                                         *)
(* A JavaScript string is a sequence of one-character strings.  A value    *)
(* held in nodeResults / edgeResults is a record [t, v]:                   *)
(*   t = "string"    v = <<s>>        the string s                         *)
(*   t = "array"     v = <<s1,..,sk>> an array of strings                  *)
(*   t = "undefined" v = <<>>         JavaScript undefined                 *)
(*   t = "null"      v = <<>>         JavaScript null                      *)
(* A Record<string, any> is a function whose domain is the set of own keys.*)
(* An optional field (params?.pattern, processType, ...) is <<>> when it   *)
(* is absent and <<x>> when it is set to x.                                *)
(***************************************************************************)
EXTENDS Integers, Sequences, FiniteSets, TLC

VARIABLES
    nodes,            \* executeFlow argument: the node list
    edges,            \* executeFlow argument: the edge list
    prevNodeResults,  \* executeFlow argument: previous node outputs
    nodeResults,      \* node id -> output of this pass
    edgeResults,      \* edge id -> value seen on the edge in this pass
    adjacency,        \* node id -> targets of its outgoing edges, edge order
    inDegree,         \* id -> number of incoming edges not yet released
    queue,            \* Kahn queue of ids
    lastInput,        \* inputData of the loop iteration that ran last
    pc,               \* where the pass is
    order,            \* history: the ids dequeued so far, in order
    prevRef,          \* App: prevExecutionResultRef.current
    timers,           \* App: number of debounce timers that are set
    flowNodes,        \* App: the nodes state (useNodesState)
    flowEdges,        \* App: the edges state (useEdgesState)
    renderPending,    \* App: a state update waits for React to render it
    replacement,      \* history: how far a generated flow has got
    lastProgress,     \* history: per Sequence node, its last output
    lastReturned      \* history: the call of executeFlow that returned last

vars == <<nodes, edges, prevNodeResults, nodeResults, edgeResults, adjacency,
          inDegree, queue, lastInput, pc, order, prevRef, timers, lastProgress,
          lastReturned, flowNodes, flowEdges, renderPending, replacement>>

\* the part of the state that belongs to App.tsx alone
appState == <<flowNodes, flowEdges, renderPending, replacement>>

\* executeFlow called on its own, without the application around it
NoApp ==
    /\ flowNodes = <<>>
    /\ flowEdges = <<>>
    /\ renderPending = FALSE
    /\ replacement = "none"

(***************************************************************************)
(* Bounds of the model.                                                    *)
(***************************************************************************)
MaxEdges == 2         \* longest edge list of a single checked pass
MaxAppEdges == 2      \* longest edge list the editor builds between passes
BurstLength == 1      \* characters a streaming tick appends (the code: 5)
StreamWindow == 1     \* characters a streaming buffer keeps (the code: 80)

(***************************************************************************)
(* Values.                                                                 *)
(***************************************************************************)
Str(s) == [t |-> "string", v |-> <<s>>]
Arr(a) == [t |-> "array", v |-> a]
Undefined == [t |-> "undefined", v |-> <<>>]
Null == [t |-> "null", v |-> <<>>]

IsArray(x) == x.t = "array"
IsString(x) == x.t = "string"
IsAbsent(x) == x.t \in {"undefined", "null"}

EmptyMap == [k \in {} |-> Undefined]
Get(m, k) == IF k \in DOMAIN m THEN m[k] ELSE Undefined
Put(m, k, x) == [y \in DOMAIN m \cup {k} |-> IF y = k THEN x ELSE m[y]]

Range(s) == {s[i] : i \in 1..Len(s)}
Count(x, s) == Cardinality({i \in 1..Len(s) : s[i] = x})

RECURSIVE Flat(_)
Flat(ss) == IF ss = <<>> THEN <<>> ELSE Head(ss) \o Flat(Tail(ss))

RECURSIVE Join(_, _)
Join(a, d) ==
    IF a = <<>> THEN <<>>
    ELSE IF Len(a) = 1 THEN a[1]
    ELSE a[1] \o d \o Join(Tail(a), d)

\* String(x): a string is itself, an array is its elements joined by ","
StringOf(x) ==
    IF IsString(x) THEN x.v[1]
    ELSE IF IsArray(x) THEN Join(x.v, <<",">>)
    ELSE IF x.t = "null" THEN <<"n", "u", "l", "l">>
    ELSE <<"u", "n", "d", "e", "f", "i", "n", "e", "d">>

\* x.length of a string or an array
LengthOf(x) == IF IsString(x) THEN Len(x.v[1]) ELSE Len(x.v)

\* s.includes(sub)
Includes(s, sub) ==
    \E i \in 0..(Len(s) - Len(sub)) : SubSeq(s, i + 1, i + Len(sub)) = sub

\* opt || d for an optional string / an optional number
StrOr(opt, d) == IF opt = <<>> THEN d ELSE IF opt[1] = <<>> THEN d ELSE opt[1]
NumOr(opt, d) == IF opt = <<>> THEN d ELSE IF opt[1] = 0 THEN d ELSE opt[1]

(***************************************************************************)
(* Nodes and edges.                                                        *)
(***************************************************************************)
NodeTypes == {"INPUT", "PROCESS", "OUTPUT", "EMITTER", "BRANCH", "MERGE",
              "BATCH", "SEQUENCE"}

NoParams == [pattern |-> <<>>, replacement |-> <<>>, delimiter |-> <<>>,
             fieldIndex |-> <<>>, batchSize |-> <<>>]

\* node.data: label and isActive matter to the streaming driver only, and
\* currentValue (the value residing at the node) is set by no one
NodeData(type, processType, params) ==
    [type |-> type, label |-> "", isActive |-> <<>>, processType |-> processType,
     params |-> params, currentValue |-> <<>>]

MkNode(id, data) ==
    [id |-> id, type |-> data.type, label |-> data.label, isActive |-> data.isActive,
     processType |-> data.processType, params |-> data.params,
     currentValue |-> data.currentValue]

MkEdge(id, source, target) == [id |-> id, source |-> source, target |-> target]

IdsOf(ns) == {ns[i].id : i \in 1..Len(ns)}

IsSource(node) == node.type = "INPUT" \/ node.type = "EMITTER"

\* nodes.find(n => n.id === nodeId): <<>> when there is none
FindNode(ns, nodeId) ==
    LET hits == SelectSeq(ns, LAMBDA n : n.id = nodeId)
    IN IF hits = <<>> THEN <<>> ELSE <<hits[1]>>

(***************************************************************************)
(* String operations of the JavaScript runtime the engine uses.            *)
(***************************************************************************)
\* index of the first occurrence of d in s at or after position i, 0 if none
RECURSIVE IndexFrom(_, _, _)
IndexFrom(s, d, i) ==
    IF i + Len(d) - 1 > Len(s) THEN 0
    ELSE IF SubSeq(s, i, i + Len(d) - 1) = d THEN i
    ELSE IndexFrom(s, d, i + 1)

\* s.split(d) for a non-empty separator string d
RECURSIVE SplitOn(_, _)
SplitOn(s, d) ==
    LET i == IndexFrom(s, d, 1)
    IN IF i = 0 THEN <<s>>
       ELSE <<SubSeq(s, 1, i - 1)>> \o SplitOn(SubSeq(s, i + Len(d), Len(s)), d)

\* s.split(/\r?\n/): a "\r" right before a line feed belongs to the separator
SplitLines(s) ==
    LET parts == SplitOn(s, <<"\n">>)
        Strip(p) == IF p # <<>> /\ p[Len(p)] = "\r" THEN SubSeq(p, 1, Len(p) - 1) ELSE p
    IN [i \in 1..Len(parts) |-> IF i < Len(parts) THEN Strip(parts[i]) ELSE parts[i]]

\* a.filter(Boolean) on an array of strings: drop the empty strings
DropEmpty(a) == SelectSeq(a, LAMBDA l : l # <<>>)

Digit(n) == CASE n = 0 -> "0" [] n = 1 -> "1" [] n = 2 -> "2" [] n = 3 -> "3"
              [] n = 4 -> "4" [] n = 5 -> "5" [] n = 6 -> "6" [] n = 7 -> "7"
              [] n = 8 -> "8" [] n = 9 -> "9"

\* `${n}` for a natural number n
RECURSIVE DecimalString(_)
DecimalString(n) ==
    IF n < 10 THEN <<Digit(n)>> ELSE DecimalString(n \div 10) \o <<Digit(n % 10)>>

UpperLetters == <<"A", "B", "C", "D", "E", "F", "G", "H", "I", "J", "K", "L", "M",
                  "N", "O", "P", "Q", "R", "S", "T", "U", "V", "W", "X", "Y", "Z">>
LowerLetters == <<"a", "b", "c", "d", "e", "f", "g", "h", "i", "j", "k", "l", "m",
                  "n", "o", "p", "q", "r", "s", "t", "u", "v", "w", "x", "y", "z">>

PositionIn(c, table) ==
    IF \E i \in 1..Len(table) : table[i] = c
    THEN CHOOSE i \in 1..Len(table) : table[i] = c
    ELSE 0

ToUpperChar(c) ==
    IF PositionIn(c, LowerLetters) = 0 THEN c ELSE UpperLetters[PositionIn(c, LowerLetters)]
ToLowerChar(c) ==
    IF PositionIn(c, UpperLetters) = 0 THEN c ELSE LowerLetters[PositionIn(c, UpperLetters)]
ToUpperCase(s) == [i \in 1..Len(s) |-> ToUpperChar(s[i])]
ToLowerCase(s) == [i \in 1..Len(s) |-> ToLowerChar(s[i])]

\* The characters of the model in ascending UTF-16 code unit order; the
\* rank of a character stands for its code unit in comparisons.
CodeOrder == <<"\n", "\r", " ", "(", ",", "0", "1", "2", "3", "4", "5", "6", "7",
               "8", "9", ":">> \o UpperLetters \o <<"[", "]">> \o LowerLetters
CodeUnit(c) == PositionIn(c, CodeOrder)

\* a < b in the order Array.prototype.sort() uses by default
RECURSIVE StringLess(_, _)
StringLess(a, b) ==
    IF b = <<>> THEN FALSE
    ELSE IF a = <<>> THEN TRUE
    ELSE IF CodeUnit(a[1]) # CodeUnit(b[1]) THEN CodeUnit(a[1]) < CodeUnit(b[1])
    ELSE StringLess(Tail(a), Tail(b))

\* insert x after the elements that are not greater than it (stable)
RECURSIVE InsertSorted(_, _)
InsertSorted(x, a) ==
    IF a = <<>> THEN <<x>>
    ELSE IF StringLess(x, a[1]) THEN <<x>> \o a
    ELSE <<a[1]>> \o InsertSorted(x, Tail(a))

\* a slip: one pass of exchanges of neighbours, which does not always
\* leave the lines in order
RECURSIVE SortLinesOnePass(_)
SortLinesOnePass(a) ==
    IF Len(a) < 2 THEN a
    ELSE IF StringLess(a[2], a[1])
         THEN <<a[2]>> \o SortLinesOnePass(<<a[1]>> \o SubSeq(a, 3, Len(a)))
         ELSE <<a[1]>> \o SortLinesOnePass(Tail(a))

\* [...lines].sort()
RECURSIVE SortLines(_)
SortLines(a) ==
    IF a = <<>> THEN <<>>
    ELSE InsertSorted(a[Len(a)], SortLines(SubSeq(a, 1, Len(a) - 1)))

\* Array.from(new Set(lines)): first occurrences, in order
UniqLines(a) ==
    LET keep == {i \in 1..Len(a) : \A j \in 1..(i - 1) : a[j] # a[i]}
        F[i \in 0..Len(a)] ==
            IF i = 0 THEN <<>>
            ELSE IF i \in keep THEN F[i - 1] \o <<a[i]>> ELSE F[i - 1]
    IN F[Len(a)]

\* Of the characters with a meaning in a regular expression the model's
\* texts use "(" alone, and an unclosed group does not compile.
IsValidRegExp(pattern) == "(" \notin Range(pattern)

\* new RegExp(pattern, 'i').test(l) for a pattern of plain characters
RegExpTestIgnoreCase(pattern, l) == Includes(ToUpperCase(l), ToUpperCase(pattern))

\* l.split(search).join(replace): every occurrence, left to right
RECURSIVE ReplaceLiteral(_, _, _)
ReplaceLiteral(l, search, replace) ==
    IF search = <<>>
    THEN Join([i \in 1..Len(l) |-> <<l[i]>>], replace)
    ELSE LET i == IndexFrom(l, search, 1)
         IN IF i = 0 THEN l
            ELSE SubSeq(l, 1, i - 1) \o replace
                 \o ReplaceLiteral(SubSeq(l, i + Len(search), Len(l)), search, replace)

\* l.replace(new RegExp(search, 'g'), replace) for a pattern of plain
\* characters; the empty pattern matches before every character and at the end
ReplaceRegExp(l, search, replace) ==
    IF search = <<>>
    THEN replace \o Flat([i \in 1..Len(l) |-> <<l[i]>> \o replace])
    ELSE ReplaceLiteral(l, search, replace)

(***************************************************************************)
(* processBatch                                                            *)
(***************************************************************************)
Min(a, b) == IF a < b THEN a ELSE b

BatchLines(input) ==
    IF IsString(input) THEN DropEmpty(SplitLines(input.v[1]))
    ELSE IF IsArray(input) THEN input.v
    ELSE <<StringOf(input)>>

\* `[Batch of ${chunk.length}]: ${chunk.join(', ')}`
BatchLabel(chunk) ==
    <<"[", "B", "a", "t", "c", "h", " ", "o", "f", " ">> \o DecimalString(Len(chunk))
    \o <<"]", ":", " ">> \o Join(chunk, <<",", " ">>)

\* a slip: the loop runs while a whole chunk is left, the lines after the
\* last whole chunk are dropped
RECURSIVE BatchChunksWholeOnly(_, _, _)
BatchChunksWholeOnly(lines, i, batchSize) ==
    IF ~(i + batchSize <= Len(lines)) THEN <<>>
    ELSE <<BatchLabel(SubSeq(lines, i + 1, i + batchSize))>>
         \o BatchChunksWholeOnly(lines, i + batchSize, batchSize)

\* the chunk loop from index i (0-based), for a step batchSize >= 1
RECURSIVE BatchChunks(_, _, _)
BatchChunks(lines, i, batchSize) ==
    IF ~(i < Len(lines)) THEN <<>>
    ELSE <<BatchLabel(SubSeq(lines, i + 1, Min(i + batchSize, Len(lines))))>>
         \o BatchChunks(lines, i + batchSize, batchSize)

\* With a negative step i only falls, so i < lines.length stays true: the
\* loop never exits once it is entered.
BatchLoopDiverges(input, batchSize) == batchSize < 0 /\ BatchLines(input) # <<>>

processBatch(input, batchSize) == Arr(BatchChunks(BatchLines(input), 0, batchSize))

(***************************************************************************)
(* processData                                                             *)
(***************************************************************************)
DataLines(input) ==
    IF IsString(input) THEN SplitLines(input.v[1])
    ELSE IF IsArray(input) THEN input.v
    ELSE <<StringOf(input)>>

MapLines(a, F(_)) == [i \in 1..Len(a) |-> F(a[i])]

\* a slip: the regular expression is built without the 'i' flag
GrepCaseSensitive(lines, pattern) == SelectSeq(lines, LAMBDA l : Includes(l, pattern))

Grep(lines, pattern) ==
    IF IsValidRegExp(pattern)
    THEN SelectSeq(lines, LAMBDA l : RegExpTestIgnoreCase(pattern, l))
    ELSE SelectSeq(lines, LAMBDA l : Includes(l, pattern))

Sed(lines, search, replace) ==
    IF IsValidRegExp(search)
    THEN MapLines(lines, LAMBDA l : ReplaceRegExp(l, search, replace))
    ELSE MapLines(lines, LAMBDA l : ReplaceLiteral(l, search, replace))

Awk(lines, fieldIdx, delimiter) ==
    MapLines(lines, LAMBDA l :
        LET parts == DropEmpty(SplitOn(l, delimiter))
        IN IF fieldIdx + 1 \in 1..Len(parts) THEN parts[fieldIdx + 1] ELSE <<>>)

Wc(lines) ==
    <<"L", "i", "n", "e", "s", ":", " ">> \o DecimalString(Len(lines)) \o <<"\n">>
    \o <<"C", "h", "a", "r", "a", "c", "t", "e", "r", "s", ":", " ">>
    \o DecimalString(Len(Flat(lines)))

\* a slip: JOIN does not read the configured delimiter
processDataJoinNewline(input, processType, params) ==
    LET lines == DataLines(input)
    IN CASE processType = "split" ->
              IF IsString(input)
              THEN Arr(SplitOn(input.v[1], StrOr(params.delimiter, <<",">>)))
              ELSE Arr(lines)
         [] processType = "grep" -> Arr(Grep(lines, StrOr(params.pattern, <<>>)))
         [] processType = "sed" ->
              Arr(Sed(lines, StrOr(params.pattern, <<>>), StrOr(params.replacement, <<>>)))
         [] processType = "awk" ->
              Arr(Awk(lines, NumOr(params.fieldIndex, 1) - 1, StrOr(params.delimiter, <<" ">>)))
         [] processType = "sort" -> Arr(SortLines(lines))
         [] processType = "uniq" -> Arr(UniqLines(lines))
         [] processType = "join" -> Str(Join(lines, <<"\n">>))
         [] processType = "wc" -> Str(Wc(lines))
         [] processType = "upper" -> Arr(MapLines(lines, ToUpperCase))
         [] processType = "lower" -> Arr(MapLines(lines, ToLowerCase))
         [] OTHER -> Arr(lines)

\* processType is the selector after the caller's default has been applied
processData(input, processType, params) ==
    LET lines == DataLines(input)
    IN CASE processType = "split" ->
              IF IsString(input)
              THEN Arr(SplitOn(input.v[1], StrOr(params.delimiter, <<",">>)))
              ELSE Arr(lines)
         [] processType = "grep" -> Arr(Grep(lines, StrOr(params.pattern, <<>>)))
         [] processType = "sed" ->
              Arr(Sed(lines, StrOr(params.pattern, <<>>), StrOr(params.replacement, <<>>)))
         [] processType = "awk" ->
              Arr(Awk(lines, NumOr(params.fieldIndex, 1) - 1, StrOr(params.delimiter, <<" ">>)))
         [] processType = "sort" -> Arr(SortLines(lines))
         [] processType = "uniq" -> Arr(UniqLines(lines))
         [] processType = "join" -> Str(Join(lines, StrOr(params.delimiter, <<"\n">>)))
         [] processType = "wc" -> Str(Wc(lines))
         [] processType = "upper" -> Arr(MapLines(lines, ToUpperCase))
         [] processType = "lower" -> Arr(MapLines(lines, ToLowerCase))
         [] OTHER -> Arr(lines)

(***************************************************************************)
(* executeFlow: set-up (the code before the Kahn loop).                    *)
(***************************************************************************)
\* a slip: the EMITTER kind is left out of the test, INPUT nodes alone are
\* seeded
RECURSIVE SeedResultsInputOnly(_, _)
SeedResultsInputOnly(ns, nr) ==
    IF ns = <<>> THEN nr
    ELSE SeedResultsInputOnly(Tail(ns),
            IF Head(ns).type = "INPUT"
            THEN Put(nr, Head(ns).id, Str(StrOr(Head(ns).params.pattern, <<>>)))
            ELSE nr)

\* nodes.forEach: seed the result of every INPUT and EMITTER node
RECURSIVE SeedResults(_, _)
SeedResults(ns, nr) ==
    IF ns = <<>> THEN nr
    ELSE SeedResults(Tail(ns),
            IF IsSource(Head(ns))
            THEN Put(nr, Head(ns).id, Str(StrOr(Head(ns).params.pattern, <<>>)))
            ELSE nr)

InitialAdjacency(ns) == [n \in IdsOf(ns) |-> <<>>]
InitialInDegree(ns) == [n \in IdsOf(ns) |-> 0]

\* adjacency and inDegree are plain objects ({}): a key that is not an own
\* key but names a property inherited from Object.prototype reads as that
\* property, which is truthy and has no push method.
ObjectPrototypeKeys == {"constructor", "toString", "valueOf", "hasOwnProperty"}

\* a slip: the count is not read back, so every counted id ends at 1
DegreeOr0Forgotten(deg, k) == 0

\* inDegree[k] || 0
DegreeOr0(deg, k) == IF k \in DOMAIN deg THEN deg[k] ELSE 0

\* edges.forEach over a state [adjacency, inDegree, thrown]; the TypeError
\* of a push on an inherited property ends the loop
RECURSIVE AddEdges(_, _)
AddEdges(es, g) ==
    IF es = <<>> \/ g.thrown THEN g
    ELSE LET e == Head(es)
             counted == Put(g.inDegree, e.target, DegreeOr0(g.inDegree, e.target) + 1)
         IN IF e.source \in DOMAIN g.adjacency
            THEN AddEdges(Tail(es),
                    [adjacency |-> [g.adjacency EXCEPT ![e.source] = Append(@, e.target)],
                     inDegree |-> counted, thrown |-> FALSE])
            ELSE IF e.source \in ObjectPrototypeKeys
            THEN [g EXCEPT !.thrown = TRUE]
            ELSE AddEdges(Tail(es), [g EXCEPT !.inDegree = counted])

BuildGraph(ns, es) ==
    AddEdges(es, [adjacency |-> InitialAdjacency(ns),
                  inDegree |-> InitialInDegree(ns), thrown |-> FALSE])

\* a slip: find instead of filter, only the first ready node is queued
InitialQueueFirstOnly(ns, deg) ==
    LET ready == SelectSeq(ns, LAMBDA n : deg[n.id] = 0)
    IN IF ready = <<>> THEN <<>> ELSE <<ready[1].id>>

\* a slip: the filter is missing, every node is queued at once
InitialQueueUnfiltered(ns, deg) == [i \in 1..Len(ns) |-> ns[i].id]

\* nodes.filter(n => inDegree[n.id] === 0).map(n => n.id)
InitialQueue(ns, deg) ==
    LET ready == SelectSeq(ns, LAMBDA n : deg[n.id] = 0)
    IN [i \in 1..Len(ready) |-> ready[i].id]

(***************************************************************************)
(* executeFlow: one iteration of the Kahn loop.                            *)
(***************************************************************************)
IncomingEdges(es, nodeId) == SelectSeq(es, LAMBDA e : e.target = nodeId)

\* incomingEdges.map(e => nodeResults[e.source]).filter(d => d !== undefined)
Inputs(incoming, nr) ==
    SelectSeq([i \in 1..Len(incoming) |-> Get(nr, incoming[i].source)],
              LAMBDA d : d # Undefined)

\* a slip: the Array.isArray test of the mixed case is missing, an array is
\* turned into one string like any other input
AggregateAllStrings(inputs) ==
    IF \A i \in 1..Len(inputs) : IsArray(inputs[i])
    THEN Arr(Flat([i \in 1..Len(inputs) |-> inputs[i].v]))
    ELSE Arr([i \in 1..Len(inputs) |-> StringOf(inputs[i])])

\* the fan-in of two or more inputs
Aggregate(inputs) ==
    IF \A i \in 1..Len(inputs) : IsArray(inputs[i])
    THEN Arr(Flat([i \in 1..Len(inputs) |-> inputs[i].v]))
    ELSE Arr(Flat([i \in 1..Len(inputs) |->
                    IF IsArray(inputs[i]) THEN inputs[i].v ELSE <<StringOf(inputs[i])>>]))

InputData(node, incoming, nr) ==
    IF Len(incoming) > 0
    THEN LET inputs == Inputs(incoming, nr)
         IN IF Len(inputs) = 1 THEN inputs[1]
            ELSE IF Len(inputs) > 1 THEN Aggregate(inputs)
            ELSE Null
    ELSE IF IsSource(node) THEN Get(nr, node.id)
    ELSE Null

\* a slip: an edge is recorded only when its source holds a value
RECURSIVE RecordEdgesWithValue(_, _, _)
RecordEdgesWithValue(incoming, nr, er) ==
    IF incoming = <<>> THEN er
    ELSE RecordEdgesWithValue(Tail(incoming), nr,
            IF Head(incoming).source \in DOMAIN nr
            THEN Put(er, Head(incoming).id, nr[Head(incoming).source])
            ELSE er)

\* incomingEdges.forEach(e => edgeResults[e.id] = nodeResults[e.source])
RECURSIVE RecordEdges(_, _, _)
RecordEdges(incoming, nr, er) ==
    IF incoming = <<>> THEN er
    ELSE RecordEdges(Tail(incoming), nr,
                     Put(er, Head(incoming).id, Get(nr, Head(incoming).source)))

\* a slip: the progress is kept in a variable that outlives the call, and
\* read from there once a call has returned
PrevOutputRemembered(prev, id) ==
    LET kept == IF lastReturned.called THEN lastReturned.nodeResults ELSE prev
        p == Get(kept, id)
    IN IF IsAbsent(p) \/ p = Str(<<>>) THEN Str(<<>>) ELSE p

\* prevNodeResults[node.id] || "": only undefined and "" are falsy here
PrevOutput(prev, id) ==
    LET p == Get(prev, id)
    IN IF IsAbsent(p) \/ p = Str(<<>>) THEN Str(<<>>) ELSE p

\* a slip: the needed character is looked for at the head of the buffer only
SequenceStepAtHead(node, inputData, prev) ==
    LET targetPattern == StrOr(node.params.pattern, <<>>)
        prevOutput == PrevOutput(prev, node.id)
    IN IF LengthOf(prevOutput) < Len(targetPattern)
       THEN LET nextCharNeeded == targetPattern[LengthOf(prevOutput) + 1]
                inputStr == IF IsArray(inputData) THEN Join(inputData.v, <<>>)
                            ELSE StringOf(inputData)
            IN IF inputStr # <<>> /\ inputStr[1] = nextCharNeeded
               THEN Str(StringOf(prevOutput) \o <<nextCharNeeded>>)
               ELSE prevOutput
       ELSE prevOutput

\* the SEQUENCE branch
SequenceStep(node, inputData, prev) ==
    LET targetPattern == StrOr(node.params.pattern, <<>>)
        prevOutput == PrevOutput(prev, node.id)
    IN IF LengthOf(prevOutput) < Len(targetPattern)
       THEN LET nextCharNeeded == targetPattern[LengthOf(prevOutput) + 1]
                inputStr == IF IsArray(inputData) THEN Join(inputData.v, <<>>)
                            ELSE StringOf(inputData)
            IN IF Includes(inputStr, <<nextCharNeeded>>)
               THEN Str(StringOf(prevOutput) \o <<nextCharNeeded>>)
               ELSE prevOutput
       ELSE prevOutput

\* processBatch is entered with a step under which its loop never exits
DispatchDiverges(node, inputData) ==
    /\ node.type = "BATCH"
    /\ BatchLoopDiverges(inputData, NumOr(node.params.batchSize, 3))

\* a slip: a Merge node that put something out in the previous pass puts it
\* out again
DispatchMergeRemembers(node, inputData, prev) ==
    IF node.type = "PROCESS" \/ node.type = "BRANCH"
    THEN processData(inputData,
                     IF node.processType = <<>> THEN "grep" ELSE node.processType[1],
                     node.params)
    ELSE IF node.type = "BATCH"
    THEN processBatch(inputData, NumOr(node.params.batchSize, 3))
    ELSE IF node.type = "MERGE"
    THEN (IF node.id \in DOMAIN prev THEN prev[node.id] ELSE inputData)
    ELSE IF node.type = "SEQUENCE" THEN SequenceStep(node, inputData, prev)
    ELSE inputData

\* a slip: a missing selector is handed on as it is, without the default
DispatchNoDefault(node, inputData, prev) ==
    IF node.type = "PROCESS" \/ node.type = "BRANCH"
    THEN processData(inputData,
                     IF node.processType = <<>> THEN "" ELSE node.processType[1],
                     node.params)
    ELSE IF node.type = "BATCH"
    THEN processBatch(inputData, NumOr(node.params.batchSize, 3))
    ELSE IF node.type = "SEQUENCE" THEN SequenceStep(node, inputData, prev)
    ELSE inputData

\* the value stored for a node whose inputData is neither null nor undefined
Dispatch(node, inputData, prev) ==
    IF node.type = "PROCESS" \/ node.type = "BRANCH"
    THEN processData(inputData,
                     IF node.processType = <<>> THEN "grep" ELSE node.processType[1],
                     node.params)
    ELSE IF node.type = "BATCH"
    THEN processBatch(inputData, NumOr(node.params.batchSize, 3))
    ELSE IF node.type = "MERGE" THEN inputData
    ELSE IF node.type = "SEQUENCE" THEN SequenceStep(node, inputData, prev)
    ELSE IF node.type = "OUTPUT" THEN inputData
    ELSE inputData

\* a slip: the in-degrees are decremented but nothing is pushed
RECURSIVE TriggerNeighborsNoPush(_, _)
TriggerNeighborsNoPush(neighbors, s) ==
    IF neighbors = <<>> THEN s
    ELSE TriggerNeighborsNoPush(Tail(neighbors),
            [inDegree |-> [s.inDegree EXCEPT ![Head(neighbors)] = @ - 1],
             queue |-> s.queue])

\* a slip: unshift instead of push, a node that becomes ready goes first
RECURSIVE TriggerNeighborsUnshift(_, _)
TriggerNeighborsUnshift(neighbors, s) ==
    IF neighbors = <<>> THEN s
    ELSE LET neighborId == Head(neighbors)
             d == s.inDegree[neighborId] - 1
         IN TriggerNeighborsUnshift(Tail(neighbors),
               [inDegree |-> [s.inDegree EXCEPT ![neighborId] = d],
                queue |-> IF d = 0 THEN <<neighborId>> \o s.queue ELSE s.queue])

\* adjacency[nodeId].forEach over a state [inDegree, queue]
RECURSIVE TriggerNeighbors(_, _)
TriggerNeighbors(neighbors, s) ==
    IF neighbors = <<>> THEN s
    ELSE LET neighborId == Head(neighbors)
             d == s.inDegree[neighborId] - 1
         IN TriggerNeighbors(Tail(neighbors),
               [inDegree |-> [s.inDegree EXCEPT ![neighborId] = d],
                queue |-> IF d = 0 THEN Append(s.queue, neighborId) ELSE s.queue])

(***************************************************************************)
(* executeFlow as a state machine: Build is the code before the loop,      *)
(* Step one iteration of the loop, Return the return statement.            *)
(***************************************************************************)
HasValue(x) == ~IsAbsent(x)

\* what is known of the call that returned last: its third argument and the
\* pair it returned
NoCall == [called |-> FALSE, prev |-> EmptyMap, nodeResults |-> EmptyMap,
           edgeResults |-> EmptyMap]
Returned == [called |-> TRUE, prev |-> prevNodeResults, nodeResults |-> nodeResults,
             edgeResults |-> edgeResults]

Build ==
    /\ pc = "start"
    /\ LET g == BuildGraph(nodes, edges)
       IN IF g.thrown
          THEN /\ pc' = "thrown"
               /\ UNCHANGED <<nodeResults, edgeResults, adjacency, inDegree, queue>>
          ELSE /\ pc' = "loop"
               /\ nodeResults' = SeedResults(nodes, EmptyMap)
               /\ edgeResults' = EmptyMap
               /\ adjacency' = g.adjacency
               /\ inDegree' = g.inDegree
               /\ queue' = InitialQueue(nodes, g.inDegree)
    /\ order' = <<>>
    /\ lastInput' = Null
    /\ UNCHANGED <<nodes, edges, prevNodeResults, prevRef, lastProgress, timers,
                   lastReturned>>
    /\ UNCHANGED appState

\* a slip: the outputs are also stored in the nodes, as data.currentValue
StepStoringValue ==
    /\ pc = "loop"
    /\ queue # <<>>
    /\ LET nodeId == Head(queue)
           found == FindNode(nodes, nodeId)
       IN IF found = <<>>
          THEN /\ queue' = Tail(queue)
               /\ UNCHANGED <<nodeResults, edgeResults, inDegree, lastInput, pc>>
          ELSE LET node == found[1]
                   incomingEdges == IncomingEdges(edges, nodeId)
                   inputData == InputData(node, incomingEdges, nodeResults)
                   triggered == TriggerNeighbors(adjacency[nodeId],
                                    [inDegree |-> inDegree, queue |-> Tail(queue)])
               IN /\ lastInput' = inputData
                  /\ edgeResults' = RecordEdges(incomingEdges, nodeResults, edgeResults)
                  /\ IF HasValue(inputData) /\ DispatchDiverges(node, inputData)
                     THEN /\ pc' = "hung"
                          /\ queue' = Tail(queue)
                          /\ UNCHANGED <<nodeResults, inDegree>>
                     ELSE /\ pc' = pc
                          /\ nodeResults' =
                                IF HasValue(inputData)
                                THEN Put(nodeResults, node.id,
                                         Dispatch(node, inputData, prevNodeResults))
                                ELSE nodeResults
                          /\ inDegree' = triggered.inDegree
                          /\ queue' = triggered.queue
    /\ order' = Append(order, Head(queue))
    /\ nodes' = [i \in 1..Len(nodes) |->
                    IF nodes[i].id \in DOMAIN nodeResults'
                    THEN [nodes[i] EXCEPT !.currentValue = <<nodeResults'[nodes[i].id]>>]
                    ELSE nodes[i]]
    /\ UNCHANGED <<edges, prevNodeResults, adjacency, prevRef, lastProgress, timers,
                   lastReturned>>
    /\ UNCHANGED appState

Step ==
    /\ pc = "loop"
    /\ queue # <<>>
    /\ LET nodeId == Head(queue)
           found == FindNode(nodes, nodeId)
       IN IF found = <<>>
          THEN /\ queue' = Tail(queue)
               /\ UNCHANGED <<nodeResults, edgeResults, inDegree, lastInput, pc>>
          ELSE LET node == found[1]
                   incomingEdges == IncomingEdges(edges, nodeId)
                   inputData == InputData(node, incomingEdges, nodeResults)
                   triggered == TriggerNeighbors(adjacency[nodeId],
                                    [inDegree |-> inDegree, queue |-> Tail(queue)])
               IN /\ lastInput' = inputData
                  /\ edgeResults' = RecordEdges(incomingEdges, nodeResults, edgeResults)
                  /\ IF HasValue(inputData) /\ DispatchDiverges(node, inputData)
                     THEN /\ pc' = "hung"
                          /\ queue' = Tail(queue)
                          /\ UNCHANGED <<nodeResults, inDegree>>
                     ELSE /\ pc' = pc
                          /\ nodeResults' =
                                IF HasValue(inputData)
                                THEN Put(nodeResults, node.id,
                                         Dispatch(node, inputData, prevNodeResults))
                                ELSE nodeResults
                          /\ inDegree' = triggered.inDegree
                          /\ queue' = triggered.queue
    /\ order' = Append(order, Head(queue))
    /\ UNCHANGED <<nodes, edges, prevNodeResults, adjacency, prevRef, lastProgress,
                   timers, lastReturned>>
    /\ UNCHANGED appState

Return ==
    /\ pc = "loop"
    /\ queue = <<>>
    /\ pc' = "done"
    /\ UNCHANGED <<nodes, edges, prevNodeResults, nodeResults, edgeResults, adjacency,
                   inDegree, queue, lastInput, order, prevRef, lastProgress, timers,
                   lastReturned>>
    /\ UNCHANGED appState

(***************************************************************************)
(* Spec: one pass over every graph of the bounded family.                  *)
(***************************************************************************)
NodeIds == <<"1", "2", "3">>

\* an id no node has, and one that also names an Object.prototype property
GhostId == "ghost"
InheritedId == "constructor"

P(name, x) == [NoParams EXCEPT ![name] = <<x>>]

NodePool ==
    { NodeData("INPUT", <<>>, P("pattern", <<"B", "A">>)),
      NodeData("EMITTER", <<>>, NoParams),
      NodeData("PROCESS", <<"grep">>, P("pattern", <<"a">>)),
      NodeData("BRANCH", <<>>, NoParams),
      NodeData("MERGE", <<>>, NoParams),
      NodeData("BATCH", <<>>, NoParams),
      NodeData("BATCH", <<>>, P("batchSize", -1)),
      NodeData("SEQUENCE", <<>>, P("pattern", <<"A", "B">>)),
      NodeData("OUTPUT", <<>>, NoParams) }

NodeLists ==
    { [i \in 1..Len(NodeIds) |-> MkNode(NodeIds[i], d[i])] :
        d \in [1..Len(NodeIds) -> NodePool] }

EdgeIds == <<"e1", "e2", "e3", "e4">>
EdgeSources == Range(NodeIds) \cup {GhostId, InheritedId}
EdgeTargets == Range(NodeIds) \cup {GhostId}

EdgeLists ==
    UNION { { [i \in 1..k |-> MkEdge(EdgeIds[i], st[i][1], st[i][2])] :
                st \in [1..k -> EdgeSources \X EdgeTargets] } : k \in 0..MaxEdges }

\* previous outputs handed to the pass: none, or the same text for every id
PrevPool ==
    { EmptyMap } \cup
    { [n \in Range(NodeIds) |-> Str(p)] : p \in { <<"A">>, <<"A", "B">> } }

InitEngine ==
    /\ nodeResults = EmptyMap
    /\ edgeResults = EmptyMap
    /\ adjacency = EmptyMap
    /\ inDegree = EmptyMap
    /\ queue = <<>>
    /\ lastInput = Null
    /\ order = <<>>

Init ==
    /\ nodes \in NodeLists
    /\ edges \in EdgeLists
    /\ prevNodeResults \in PrevPool
    /\ prevRef = EmptyMap
    /\ timers = 0
    /\ pc = "start"
    /\ lastProgress = EmptyMap
    /\ lastReturned = NoCall
    /\ InitEngine
    /\ NoApp

Next == Build \/ Step \/ Return

Spec == Init /\ [][Next]_vars

(***************************************************************************)
(* SpecPipe: one pass over pipelines of a source text and transforms:      *)
(* chains of three and four nodes, a diamond whose last node has two       *)
(* incoming edges, and three sources feeding one node.                     *)
(***************************************************************************)
MaxLines == 2         \* most lines of a generated source text

LinePool == { <<>>, <<"b">>, <<"A">>, <<",">>, <<"a", ",", "b">> }

ErrorLog == <<"E", "R", "R", "O", "R", " ", "1", "\n", "I", "N", "F", "O", " ", "2",
              "\n", "E", "R", "R", "O", "R", " ", "3">>

\* texts of up to MaxLines lines, and some longer ones: a log, lines out of
\* order with a repetition, lines in descending order, and a text with a
\* Windows line break
TextPool ==
    { Join(ls, <<"\n">>) : ls \in UNION { [1..k -> LinePool] : k \in 0..MaxLines } }
    \cup { ErrorLog,
           <<"b", "\n", "A", "\n", "b">>,
           <<"b", "\n", "A", "\n", ",">>,
           <<"b", "\r", "\n", "a">> }

SourceOf(text) == NodeData("INPUT", <<>>, P("pattern", text))

Transform(processType, params) == NodeData("PROCESS", <<processType>>, params)

TransformPool ==
    { Transform("grep", P("pattern", <<"a">>)),
      Transform("grep", P("pattern", <<"E", "R", "R", "O", "R">>)),
      NodeData("BRANCH", <<>>, NoParams),
      NodeData("PROCESS", <<>>, P("pattern", <<"a">>)),
      NodeData("BRANCH", <<"tee">>, P("pattern", <<"a">>)),
      Transform("sort", NoParams),
      Transform("uniq", NoParams),
      Transform("join", NoParams),
      Transform("join", P("delimiter", <<",">>)),
      Transform("join", P("delimiter", <<",", ",">>)),
      Transform("split", NoParams),
      Transform("split", P("delimiter", <<",">>)),
      Transform("split", P("delimiter", <<",", ",">>)),
      NodeData("BATCH", <<>>, NoParams),
      NodeData("BATCH", <<>>, P("batchSize", 1)),
      NodeData("BATCH", <<>>, P("batchSize", 2)),
      NodeData("MERGE", <<>>, NoParams),
      NodeData("OUTPUT", <<>>, NoParams) }

\* the transforms that hand an array on whatever they are given
ArrayMakers ==
    { Transform("grep", P("pattern", <<"a">>)),
      NodeData("BRANCH", <<>>, NoParams) }

\* the nodes put on the two arms of the diamond
ArmPool ==
    ArrayMakers \cup
    { Transform("join", P("delimiter", <<",">>)),
      Transform("split", P("delimiter", <<",">>)),
      NodeData("MERGE", <<>>, NoParams) }

\* the nodes put where two or three edges meet
JoinPool ==
    { NodeData("MERGE", <<>>, NoParams),
      NodeData("OUTPUT", <<>>, NoParams),
      NodeData("BATCH", <<>>, P("batchSize", 2)) }

FanTexts == { <<>>, <<"b">>, <<"A", "\n", "b">> }

PipeIds == <<"1", "2", "3", "4">>

NodesOf(ds) == [i \in 1..Len(ds) |-> MkNode(PipeIds[i], ds[i])]

Chain(ds) ==
    [nodes |-> NodesOf(ds),
     edges |-> [i \in 1..(Len(ds) - 1) |-> MkEdge(EdgeIds[i], PipeIds[i], PipeIds[i + 1])]]

Diamond(ds, first, second) ==
    [nodes |-> NodesOf(ds),
     edges |-> << MkEdge("e1", "1", "2"), MkEdge("e2", "1", "3"),
                  MkEdge("e3", first, "4"), MkEdge("e4", second, "4") >>]

Fan(ds) ==
    [nodes |-> NodesOf(ds),
     edges |-> << MkEdge("e1", "1", "4"), MkEdge("e2", "2", "4"),
                  MkEdge("e3", "3", "4") >>]

\* the pass is given the node list and the edge list of the graph g
Given(g) == nodes = g.nodes /\ edges = g.edges

InitPipe ==
    /\ \/ \E t \in TextPool, a \in TransformPool, b \in TransformPool :
             Given(Chain(<<SourceOf(t), a, b>>))
       \/ \E t \in TextPool, a \in ArrayMakers, b \in TransformPool, c \in TransformPool :
             Given(Chain(<<SourceOf(t), a, b, c>>))
       \/ \E t \in TextPool, a \in ArmPool, b \in ArmPool, j \in JoinPool :
             \/ Given(Diamond(<<SourceOf(t), a, b, j>>, "2", "3"))
             \/ Given(Diamond(<<SourceOf(t), a, b, j>>, "3", "2"))
       \/ \E t1 \in FanTexts, t2 \in FanTexts, t3 \in FanTexts, j \in JoinPool :
             Given(Fan(<<SourceOf(t1), SourceOf(t2), SourceOf(t3), j>>))
    /\ prevNodeResults = EmptyMap
    /\ prevRef = EmptyMap
    /\ timers = 0
    /\ pc = "start"
    /\ lastProgress = EmptyMap
    /\ lastReturned = NoCall
    /\ InitEngine
    /\ NoApp

SpecPipe == InitPipe /\ [][Next]_vars

(***************************************************************************)
(* SpecTwice: executeFlow is called, and once it has returned it is called *)
(* again with the same node list and edge list and with any previous       *)
(* outputs, the same ones or others.                                       *)
(***************************************************************************)
TwiceKinds == {"INPUT", "PROCESS", "MERGE", "SEQUENCE"}

TwiceNodeLists ==
    { ns \in NodeLists : \A i \in 1..Len(ns) : ns[i].type \in TwiceKinds }

TwiceEdgeLists ==
    { es \in EdgeLists :
        \A i \in 1..Len(es) : es[i].source \in Range(NodeIds) /\ es[i].target \in Range(NodeIds) }

\* the caller calls again; the locals of the call that returned are gone
CallAgain ==
    /\ pc = "done"
    /\ ~lastReturned.called
    /\ lastReturned' = Returned
    /\ prevNodeResults' \in PrevPool
    /\ pc' = "start"
    /\ nodeResults' = EmptyMap
    /\ edgeResults' = EmptyMap
    /\ adjacency' = EmptyMap
    /\ inDegree' = EmptyMap
    /\ queue' = <<>>
    /\ lastInput' = Null
    /\ order' = <<>>
    /\ UNCHANGED <<nodes, edges, prevRef, timers, lastProgress>>
    /\ UNCHANGED appState

InitTwice ==
    /\ nodes \in TwiceNodeLists
    /\ edges \in TwiceEdgeLists
    /\ prevNodeResults \in PrevPool
    /\ prevRef = EmptyMap
    /\ timers = 0
    /\ pc = "start"
    /\ lastProgress = EmptyMap
    /\ lastReturned = NoCall
    /\ InitEngine
    /\ NoApp

NextTwice == Build \/ Step \/ Return \/ CallAgain

SpecTwice == InitTwice /\ [][NextTwice]_vars

(***************************************************************************)
(* The application around the engine (App.tsx): the graph of constants.ts, *)
(* the debounced logic effect that runs a pass and keeps its node outputs  *)
(* for the next one, the streaming driver and the editor's edge changes.   *)
(* JavaScript runs one callback at a time, so the graph changes only       *)
(* between passes (pc = "idle").  The texts are scaled down: the target of *)
(* the Sequence Matcher is "AB" and the typer draws from the target's      *)
(* characters and one noise character.                                     *)
(***************************************************************************)
SequenceTarget == <<"A", "B">>
Charset == {"A", "B", "X"}

INITIAL_NODES ==
    << [id |-> "1", type |-> "EMITTER", label |-> "Monkey Typer", isActive |-> <<TRUE>>,
        processType |-> <<>>, params |-> P("pattern", <<>>), currentValue |-> <<>>],
       [id |-> "2", type |-> "SEQUENCE", label |-> "Sequence Matcher", isActive |-> <<>>,
        processType |-> <<>>, params |-> P("pattern", SequenceTarget),
        currentValue |-> <<>>],
       [id |-> "3", type |-> "OUTPUT", label |-> "Result", isActive |-> <<>>,
        processType |-> <<>>, params |-> NoParams, currentValue |-> <<>>] >>

INITIAL_EDGES == << MkEdge("e1-2", "1", "2"), MkEdge("e2-3", "2", "3") >>

\* s.slice(-n)
SliceLast(s, n) == IF Len(s) <= n THEN s ELSE SubSeq(s, Len(s) - n + 1, Len(s))

\* the bursts of the Monkey Typer, and the tail of a generated log line for
\* any other streaming source
Bursts == [1..BurstLength -> Charset]
LogSegments == { <<"I", "N", "F", "O">>, <<"E", "R", "R", "O", "R">> }

\* a slip: the active flag is not looked at, a paused source is fed as well
TickNodeIgnoringFlag(node, newSegment) ==
    IF node.type = "EMITTER"
    THEN [node EXCEPT !.params.pattern =
            <<SliceLast(StrOr(node.params.pattern, <<>>) \o newSegment, StreamWindow)>>]
    ELSE node

\* the emitter effect's map callback for one node, given its new segment
TickNode(node, newSegment) ==
    IF node.type = "EMITTER" /\ node.isActive # <<FALSE>>
    THEN [node EXCEPT !.params.pattern =
            <<SliceLast(StrOr(node.params.pattern, <<>>) \o newSegment, StreamWindow)>>]
    ELSE node

SegmentsFor(node) == IF node.label = "Monkey Typer" THEN Bursts ELSE LogSegments

\* a slip: the effect returns no cleanup, the timer of its last run stays set
LogicEffectNoCleanup(t) == t + 1

\* The logic effect runs again after a change of nodes or edges: the cleanup
\* of its last run clears that run's timer if it is still set, then a new
\* timer is set.  At most the timer of the last run is still set.
ClearTimeout(t) == IF t > 0 THEN t - 1 ELSE t
LogicEffect(t) == ClearTimeout(t) + 1

\* React renders the updates that wait and, nodes or edges having changed,
\* runs the logic effect again: the timer callback it sets closes over the
\* nodes and edges of this render.  An update made in a timer callback or
\* after an await is rendered in a later task of the event loop, so a
\* debounce timer that is due may fire in between, over the nodes and edges
\* of the render before; an update made in a click or drag handler is
\* rendered before the next task.
Rendered(r) == IF r = "pending" THEN "rendered" ELSE r

Render ==
    /\ pc = "idle"
    /\ renderPending
    /\ renderPending' = FALSE
    /\ nodes' = flowNodes
    /\ edges' = flowEdges
    /\ timers' = LogicEffect(timers)
    /\ replacement' = Rendered(replacement)
    /\ UNCHANGED <<flowNodes, flowEdges, prevNodeResults, nodeResults, edgeResults,
                   adjacency, inDegree, queue, lastInput, pc, order, prevRef,
                   lastProgress, lastReturned>>

\* setInterval callback: every active streaming source gets its own segment
Tick ==
    /\ pc = "idle"
    /\ \E seg \in [1..Len(flowNodes) -> Bursts \cup LogSegments] :
          /\ \A i \in 1..Len(flowNodes) : seg[i] \in SegmentsFor(flowNodes[i])
          /\ \A i \in 1..Len(flowNodes) :
                (flowNodes[i].type # "EMITTER" \/ flowNodes[i].isActive = <<FALSE>>)
                    => seg[i] = CHOOSE x \in SegmentsFor(flowNodes[i]) : TRUE
          /\ LET newNodes == [i \in 1..Len(flowNodes) |-> TickNode(flowNodes[i], seg[i])]
                 hasChanges == \E i \in 1..Len(flowNodes) :
                                  /\ flowNodes[i].type = "EMITTER"
                                  /\ flowNodes[i].isActive # <<FALSE>>
             IN /\ flowNodes' = IF hasChanges THEN newNodes ELSE flowNodes
                /\ renderPending' = (renderPending \/ hasChanges)
    /\ UNCHANGED <<nodes, edges, flowEdges, timers, replacement, prevNodeResults,
                   nodeResults, edgeResults, adjacency, inDegree, queue, lastInput, pc,
                   order, prevRef, lastProgress, lastReturned>>

\* onConnect: addEdge appends the edge unless one with these ends exists.
\* The canvas offers no target handle on an 'input' node (INITIAL_NODES "1")
\* and no source handle on an 'output' node ("3").
ConnectionExists(es, source, target) ==
    \E i \in 1..Len(es) : es[i].source = source /\ es[i].target = target

ConnectSources == {"1", "2"}
ConnectTargets == {"2", "3"}

onConnect(source, target) ==
    /\ pc = "idle"
    /\ Len(flowEdges) < MaxAppEdges
    /\ ~ConnectionExists(flowEdges, source, target)
    /\ flowEdges' = Append(flowEdges, MkEdge("e" \o source \o "-" \o target, source, target))
    /\ renderPending' = FALSE
    /\ nodes' = flowNodes
    /\ edges' = flowEdges'
    /\ timers' = LogicEffect(timers)
    /\ replacement' = Rendered(replacement)
    /\ UNCHANGED <<flowNodes, prevNodeResults, nodeResults, edgeResults, adjacency,
                   inDegree, queue, lastInput, pc, order, prevRef, lastProgress,
                   lastReturned>>

\* onEdgesChange with a removal of the i-th edge
onEdgesChange(i) ==
    /\ pc = "idle"
    /\ i \in 1..Len(flowEdges)
    /\ flowEdges' = SubSeq(flowEdges, 1, i - 1) \o SubSeq(flowEdges, i + 1, Len(flowEdges))
    /\ renderPending' = FALSE
    /\ nodes' = flowNodes
    /\ edges' = flowEdges'
    /\ timers' = LogicEffect(timers)
    /\ replacement' = Rendered(replacement)
    /\ UNCHANGED <<flowNodes, prevNodeResults, nodeResults, edgeResults, adjacency,
                   inDegree, queue, lastInput, pc, order, prevRef, lastProgress,
                   lastReturned>>

\* handleToggleActive with the i-th node selected; the button is shown for
\* a selected EMITTER node only.  An unset flag counts as true.
handleToggleActive(i) ==
    /\ pc = "idle"
    /\ i \in 1..Len(flowNodes)
    /\ flowNodes[i].type = "EMITTER"
    /\ LET isActive == IF flowNodes[i].isActive = <<>> THEN TRUE
                       ELSE flowNodes[i].isActive[1]
       IN flowNodes' = [flowNodes EXCEPT ![i].isActive = <<~isActive>>]
    /\ renderPending' = FALSE
    /\ nodes' = flowNodes'
    /\ edges' = flowEdges
    /\ timers' = LogicEffect(timers)
    /\ replacement' = Rendered(replacement)
    /\ UNCHANGED <<flowEdges, prevNodeResults, nodeResults, edgeResults, adjacency,
                   inDegree, queue, lastInput, pc, order, prevRef, lastProgress,
                   lastReturned>>

\* The flows the generator may answer with, and the text handleGenerate
\* gives an INPUT node that came without one (scaled down).
AIResponses == { [nodes |-> INITIAL_NODES, edges |-> INITIAL_EDGES] }
DummyText == <<"A", "\n", "B">>

\* handleGenerate once the answer is there (after the await): every node is
\* made active, the carried outputs are dropped and the flow is handed to
\* setNodes and setEdges
handleGenerate ==
    /\ pc = "idle"
    /\ \E r \in AIResponses :
          /\ flowNodes' = [i \in 1..Len(r.nodes) |->
                         [r.nodes[i] EXCEPT
                            !.isActive = <<TRUE>>,
                            !.params = IF r.nodes[i].type = "INPUT"
                                          /\ StrOr(r.nodes[i].params.pattern, <<>>) = <<>>
                                       THEN P("pattern", DummyText)
                                       ELSE @]]
          /\ flowEdges' = r.edges
    /\ prevRef' = EmptyMap
    /\ renderPending' = TRUE
    /\ replacement' = "pending"
    /\ lastProgress' = EmptyMap
    /\ lastReturned' = NoCall
    /\ UNCHANGED <<nodes, edges, timers, prevNodeResults, nodeResults, edgeResults,
                   adjacency, inDegree, queue, lastInput, pc, order>>

\* the debounce timer fires: executeFlow(nodes, edges, prevExecutionResultRef.current)
\* with the nodes and edges of the render that set the timer
TimerFires ==
    /\ pc = "idle"
    /\ timers > 0
    /\ timers' = timers - 1
    /\ prevNodeResults' = prevRef
    /\ pc' = "start"
    /\ replacement' = IF replacement = "rendered" THEN "first" ELSE replacement
    /\ UNCHANGED <<nodes, edges, flowNodes, flowEdges, renderPending, nodeResults,
                   edgeResults, adjacency, inDegree, queue, lastInput, order, prevRef,
                   lastProgress, lastReturned>>

\* what the timer callback keeps of the call that returned: the node outputs
ReturnedToApp == [Returned EXCEPT !.prev = EmptyMap, !.edgeResults = EmptyMap]

\* a slip: the callback does not write the outputs to the ref
StoreResultsForgetting ==
    /\ pc = "done"
    /\ pc' = "idle"
    /\ nodeResults' = EmptyMap
    /\ edgeResults' = EmptyMap
    /\ adjacency' = EmptyMap
    /\ inDegree' = EmptyMap
    /\ queue' = <<>>
    /\ lastInput' = Null
    /\ order' = <<>>
    /\ lastReturned' = ReturnedToApp
    /\ replacement' = IF replacement = "first" THEN "none" ELSE replacement
    /\ UNCHANGED <<nodes, edges, flowNodes, flowEdges, renderPending, prevNodeResults,
                   timers, prevRef, lastProgress>>

\* the rest of the timer callback: prevExecutionResultRef.current =
\* results.nodeResults; the locals of executeFlow are gone with its return.
\* (executionResult, the copy kept for display, is read by no handler.)
StoreResults ==
    /\ pc = "done"
    /\ prevRef' = nodeResults
    /\ lastProgress' =
          [n \in DOMAIN lastProgress \cup
                 {nodes[i].id : i \in {j \in 1..Len(nodes) :
                     nodes[j].type = "SEQUENCE" /\ nodes[j].id \in DOMAIN nodeResults}} |->
              IF n \in DOMAIN nodeResults THEN nodeResults[n] ELSE lastProgress[n]]
    /\ pc' = "idle"
    /\ nodeResults' = EmptyMap
    /\ edgeResults' = EmptyMap
    /\ adjacency' = EmptyMap
    /\ inDegree' = EmptyMap
    /\ queue' = <<>>
    /\ lastInput' = Null
    /\ order' = <<>>
    /\ lastReturned' = ReturnedToApp
    /\ replacement' = IF replacement = "first" THEN "none" ELSE replacement
    /\ UNCHANGED <<nodes, edges, flowNodes, flowEdges, renderPending, prevNodeResults,
                   timers>>

\* after the first render: the logic effect has run once and set its timer
InitApp ==
    /\ flowNodes = INITIAL_NODES
    /\ flowEdges = INITIAL_EDGES
    /\ renderPending = FALSE
    /\ replacement = "none"
    /\ nodes = flowNodes
    /\ edges = flowEdges
    /\ prevNodeResults = EmptyMap
    /\ prevRef = EmptyMap
    /\ timers = 1
    /\ pc = "idle"
    /\ lastProgress = EmptyMap
    /\ lastReturned = NoCall
    /\ InitEngine

NextApp ==
    \/ TimerFires
    \/ Build
    \/ Step
    \/ Return
    \/ StoreResults
    \/ Tick
    \/ Render
    \/ \E s \in ConnectSources, t \in ConnectTargets : onConnect(s, t)
    \/ \E i \in 1..MaxAppEdges : onEdgesChange(i)
    \/ handleGenerate

SpecApp == InitApp /\ [][NextApp]_vars

(***************************************************************************)
(* SpecLive: the application left to run, its edges not edited.  The       *)
(* interval callback comes every 150 ms, React renders an update that      *)
(* waits, a timer that is set fires after its 100 ms and the callback it   *)
(* starts runs to its end: each of these steps is taken if it stays        *)
(* possible.  Whether and when a flow is generated is up to the user.      *)
(***************************************************************************)
NextLive ==
    \/ TimerFires
    \/ Build
    \/ Step
    \/ Return
    \/ StoreResults
    \/ Tick
    \/ Render
    \/ handleGenerate

Fairness ==
    /\ WF_vars(TimerFires)
    /\ WF_vars(Build)
    /\ WF_vars(Step)
    /\ WF_vars(Return)
    /\ WF_vars(StoreResults)
    /\ WF_vars(Tick)
    /\ WF_vars(Render)

SpecLive == InitApp /\ [][NextLive]_vars /\ Fairness

(***************************************************************************)
(* SpecTick: the streaming driver and the RUNNING/PAUSED button over node  *)
(* lists with streaming sources of both labels, running, paused and with   *)
(* the flag unset, next to nodes of other kinds.                           *)
(***************************************************************************)
Emitter(label, isActive) ==
    [NodeData("EMITTER", <<>>, NoParams) EXCEPT !.label = label, !.isActive = isActive]

TickPool ==
    { Emitter("Monkey Typer", <<>>),
      Emitter("Log Stream", <<TRUE>>),
      Emitter("Monkey Typer", <<FALSE>>),
      NodeData("INPUT", <<>>, P("pattern", <<"B", "A">>)),
      NodeData("SEQUENCE", <<>>, P("pattern", SequenceTarget)) }

TickNodeLists ==
    { <<MkNode("1", a), MkNode("2", b), MkNode("3", c)>> :
        a \in TickPool, b \in TickPool, c \in { d \in TickPool : d.type # "EMITTER" } }

InitTick ==
    /\ flowNodes \in TickNodeLists
    /\ flowEdges \in { <<>>, INITIAL_EDGES }
    /\ renderPending = FALSE
    /\ replacement = "none"
    /\ nodes = flowNodes
    /\ edges = flowEdges
    /\ prevNodeResults = EmptyMap
    /\ prevRef = EmptyMap
    /\ timers = 1
    /\ pc = "idle"
    /\ lastProgress = EmptyMap
    /\ lastReturned = NoCall
    /\ InitEngine

NextTick ==
    \/ Tick
    \/ Render
    \/ \E i \in 1..3 : handleToggleActive(i)

SpecTick == InitTick /\ [][NextTick]_vars

(***************************************************************************)
(* Vocabulary of the properties: the graph the pass was given.             *)
(***************************************************************************)
NodeIdSet == IdsOf(nodes)
NodeOf(n) == FindNode(nodes, n)[1]
Dequeued == Range(order)

\* every edge joins two existing nodes
WellFormed ==
    \A i \in 1..Len(edges) : edges[i].source \in NodeIdSet /\ edges[i].target \in NodeIdSet

\* the edges between existing nodes, as a relation
RealEdgePairs ==
    { <<edges[i].source, edges[i].target>> :
        i \in {j \in 1..Len(edges) :
                 edges[j].source \in NodeIdSet /\ edges[j].target \in NodeIdSet} }

Successors(S) == { p[2] : p \in {q \in RealEdgePairs : q[1] \in S} }

RECURSIVE ReachStar(_)
ReachStar(S) == IF Successors(S) \subseteq S THEN S ELSE ReachStar(S \cup Successors(S))

ReachPlus(n) == ReachStar(Successors({n}))
OnCycle(n) == n \in ReachPlus(n)
Acyclic == \A n \in NodeIdSet : ~OnCycle(n)

\* no edge of the edge list points at n
ZeroInDegree(n) == \A i \in 1..Len(edges) : edges[i].target # n

SourceIds == { n \in NodeIdSet : IsSource(NodeOf(n)) }
SeedOf(n) == Str(StrOr(NodeOf(n).params.pattern, <<>>))

\* some incoming edge of n has a source node that holds an output
Fed(n) == \E i \in 1..Len(edges) :
             edges[i].target = n /\ edges[i].source \in DOMAIN nodeResults

(***************************************************************************)
(* C1                                                                      *)
(***************************************************************************)
\* C1 as stated (for graphs whose edges join existing nodes): after a pass
\* over an acyclic graph every node reachable from a node with in-degree 0
\* has an entry in nodeResults.
C1_Original ==
    (pc = "done" /\ WellFormed /\ Acyclic) =>
        \A r \in NodeIdSet : ZeroInDegree(r) =>
            \A n \in ReachStar({r}) : n \in DOMAIN nodeResults

\* C1 amended: after a pass over an acyclic graph whose edges join existing
\* nodes every node has been dequeued exactly once, and a node has an entry
\* in nodeResults exactly if it is reachable (in zero or more edges) from an
\* INPUT or EMITTER node; in particular every node reachable from a source
\* node with in-degree 0 has one.
C1_SourceReachable ==
    (pc = "done" /\ WellFormed /\ Acyclic) =>
        \A n \in NodeIdSet :
            /\ Count(n, order) = 1
            /\ n \in DOMAIN nodeResults <=> n \in ReachStar(SourceIds)

\* a finished pass over a chain source -> node -> node, all with outputs,
\* beside which C1_Original's case (a root that is no source) is excluded
C1_Witness ==
    /\ pc = "done" /\ WellFormed /\ Acyclic
    /\ \E r \in SourceIds : ZeroInDegree(r) /\ Cardinality(ReachStar({r})) = 3
    /\ DOMAIN nodeResults = NodeIdSet

(***************************************************************************)
(* C2                                                                      *)
(***************************************************************************)
\* C2 as stated: after a pass no node on a cycle has an entry in nodeResults,
\* whatever its kind.
C2_Original ==
    pc = "done" => \A n \in NodeIdSet : OnCycle(n) => n \notin DOMAIN nodeResults

\* C2 amended: after a pass no node on a cycle has been dequeued; such a node
\* has no entry in nodeResults unless it is an INPUT or EMITTER node, whose
\* entry is the text it was seeded with.
C2_CycleNotEvaluated ==
    pc = "done" =>
        \A n \in NodeIdSet : OnCycle(n) =>
            /\ n \notin Dequeued
            /\ IF IsSource(NodeOf(n))
               THEN n \in DOMAIN nodeResults /\ nodeResults[n] = SeedOf(n)
               ELSE n \notin DOMAIN nodeResults

\* a finished pass with a two-node cycle of a source and a non-source node,
\* fed from outside by a node that did produce an output
C2_Witness ==
    /\ pc = "done"
    /\ \E n \in NodeIdSet \ SourceIds, m \in SourceIds, k \in NodeIdSet :
          /\ k # n /\ k # m
          /\ OnCycle(n) /\ OnCycle(m)
          /\ k \in DOMAIN nodeResults /\ k \in Dequeued

(***************************************************************************)
(* C3                                                                      *)
(***************************************************************************)
\* C3 as stated: a pass neither raises nor loops for ever; it comes to its
\* return statement.
C3_AlwaysReturns == pc \notin {"thrown", "hung"}

(***************************************************************************)
(* C6                                                                      *)
(***************************************************************************)
TargetOf(n) == StrOr(NodeOf(n).params.pattern, <<>>)

\* the progress the caller handed in for n (PrevPool holds strings only)
PrevProgress(n) == StringOf(PrevOutput(prevNodeResults, n))

\* the characters of the outputs that n's incoming edges bring
BufferChars(n) ==
    UNION { UNION { Range(nodeResults[edges[i].source].v[k]) :
                      k \in 1..Len(nodeResults[edges[i].source].v) } :
              i \in {j \in 1..Len(edges) :
                       edges[j].target = n /\ edges[j].source \in DOMAIN nodeResults} }

\* C6: when a SEQUENCE node that has an input and whose previous progress p
\* is shorter than its target is evaluated, its output is p followed by the
\* target character at position len(p) if that character occurs in the
\* input buffer, and p otherwise: one character more, or none.
C6_OneCharPerPass ==
    [][ \A n \in NodeIdSet :
          ( /\ pc = "loop" /\ queue # <<>> /\ Head(queue) = n
            /\ NodeOf(n).type = "SEQUENCE"
            /\ Fed(n)
            /\ Len(PrevProgress(n)) < Len(TargetOf(n)) )
          => /\ n \in DOMAIN nodeResults'
             /\ nodeResults'[n] =
                  Str(IF TargetOf(n)[Len(PrevProgress(n)) + 1] \in BufferChars(n)
                      THEN PrevProgress(n) \o <<TargetOf(n)[Len(PrevProgress(n)) + 1]>>
                      ELSE PrevProgress(n)) ]_vars

\* a SEQUENCE node with target "AB" and no previous progress was fed a
\* buffer that holds both target characters, the needed one not first, and
\* stands at "A"
C6_Witness ==
    /\ pc = "done"
    /\ prevNodeResults = EmptyMap
    /\ \E n \in NodeIdSet :
          /\ NodeOf(n).type = "SEQUENCE" /\ n \in Dequeued
          /\ {"A", "B"} \subseteq BufferChars(n)
          /\ n \in DOMAIN nodeResults /\ nodeResults[n] = Str(<<"A">>)

(***************************************************************************)
(* C7                                                                      *)
(***************************************************************************)
\* C7 as stated: an edge with a missing end does not keep an existing node
\* from being scheduled: after a pass every node that no cycle of existing
\* nodes leads to has been dequeued.
C7_Original ==
    pc = "done" =>
        \A n \in NodeIdSet :
            (\A m \in NodeIdSet : OnCycle(m) => n \notin ReachStar({m})) => n \in Dequeued

(***************************************************************************)
(* C8                                                                      *)
(***************************************************************************)
\* C8 as stated: an entry of nodeResults, the seed of a source node
\* included, never changes once it is written.
C8_Original ==
    [][ \A n \in DOMAIN nodeResults :
          n \in DOMAIN nodeResults' /\ nodeResults'[n] = nodeResults[n] ]_vars

\* C8 amended: an entry of nodeResults is never removed, and it changes only
\* in the step that evaluates its node for the first time, when that node is
\* an INPUT or EMITTER node with an incoming edge whose source holds an
\* output (the seed is replaced by the input); the entry of a node that has
\* been evaluated does not change again.
C8_FixedOnceEvaluated ==
    [][ \A n \in DOMAIN nodeResults :
          /\ n \in DOMAIN nodeResults'
          /\ nodeResults'[n] # nodeResults[n] =>
                /\ n \notin Dequeued
                /\ pc = "loop" /\ queue # <<>> /\ Head(queue) = n
                /\ n \in SourceIds
                /\ Fed(n) ]_vars

\* a finished pass in which an evaluated source node holds another value
\* than its seed
C8_Witness ==
    /\ pc = "done"
    /\ \E n \in SourceIds : n \in Dequeued /\ nodeResults[n] # SeedOf(n)

(***************************************************************************)
(* C9                                                                      *)
(***************************************************************************)
\* C9: after a pass every incoming edge of every dequeued node has an entry
\* in edgeResults, equal to the final output of the edge's source node
\* (undefined if it has none), whether or not the node produced an output.
C9_EdgeCarriesSourceOutput ==
    pc = "done" =>
        \A i \in 1..Len(edges) :
            (edges[i].target \in Dequeued /\ edges[i].target \in NodeIdSet) =>
                /\ edges[i].id \in DOMAIN edgeResults
                /\ edgeResults[edges[i].id] = Get(nodeResults, edges[i].source)

\* a finished pass with a dequeued node that produced no output and whose
\* incoming edge, from an existing node, is recorded all the same
C9_Witness ==
    /\ pc = "done"
    /\ \E i \in 1..Len(edges) :
          /\ edges[i].source \in NodeIdSet
          /\ edges[i].target \in Dequeued \cap NodeIdSet
          /\ edges[i].target \notin DOMAIN nodeResults
          /\ edges[i].id \in DOMAIN edgeResults

(***************************************************************************)
(* C10                                                                     *)
(***************************************************************************)
EdgeCount(n, m) ==
    Cardinality({i \in 1..Len(edges) : edges[i].source = n /\ edges[i].target = m})

\* C10: the step that dequeues a node that is no source and has no incoming
\* edge whose source holds an output writes no entry for it, lowers the
\* in-degree of every successor by the number of edges from the node, and
\* queues each successor whose in-degree reaches 0; when the pass returns
\* every id whose in-degree is 0 has been dequeued.
C10_IdleNodeReleasesSuccessors ==
    [][ /\ ( /\ pc = "loop" /\ queue # <<>> /\ Head(queue) \in NodeIdSet
             /\ ~IsSource(NodeOf(Head(queue)))
             /\ ~Fed(Head(queue)) )
           => /\ Head(queue) \notin DOMAIN nodeResults'
              /\ \A m \in DOMAIN inDegree :
                    /\ inDegree'[m] = inDegree[m] - EdgeCount(Head(queue), m)
                    /\ (EdgeCount(Head(queue), m) > 0 /\ inDegree'[m] = 0)
                          => m \in Range(queue')
        /\ pc' = "done" =>
              \A m \in DOMAIN inDegree' : inDegree'[m] = 0 => m \in Range(order') ]_vars

\* a finished pass in which a node without input and without output was
\* dequeued and a successor of it was dequeued after it
C10_Witness ==
    /\ pc = "done"
    /\ \E i \in 1..Len(edges) :
          /\ edges[i].source \in (Dequeued \cap NodeIdSet) \ DOMAIN nodeResults
          /\ edges[i].target \in Dequeued \cap NodeIdSet
          /\ edges[i].target # edges[i].source

(***************************************************************************)
(* C4, C5: pass after pass in the application (SpecApp).                   *)
(***************************************************************************)
SequenceIds == { n \in NodeIdSet : NodeOf(n).type = "SEQUENCE" }

\* C4 as stated: the progress a SEQUENCE node puts out in a pass is never
\* longer than its target and never shorter than the progress it put out
\* last, passes without an input for the node lying between or not.
C4_Original ==
    pc = "done" =>
        \A n \in SequenceIds \cap DOMAIN nodeResults :
            /\ LengthOf(nodeResults[n]) <= Len(TargetOf(n))
            /\ n \in DOMAIN lastProgress =>
                  LengthOf(nodeResults[n]) >= LengthOf(lastProgress[n])

\* C5 as stated: once a SEQUENCE node has put out its whole target, every
\* later pass in which it puts out a progress puts out the whole target.
C5_Original ==
    pc = "done" =>
        \A n \in SequenceIds \cap DOMAIN nodeResults \cap DOMAIN lastProgress :
            lastProgress[n] = Str(TargetOf(n)) => nodeResults[n] = Str(TargetOf(n))

(***************************************************************************)
(* C11                                                                     *)
(***************************************************************************)
\* the positions in the edge list of the edges into n whose source node
\* holds an output
FedEdges(n) ==
    { i \in 1..Len(edges) : edges[i].target = n /\ edges[i].source \in DOMAIN nodeResults }

\* what an output adds to the fan-in: its elements, or itself as one string
Contribution(x) == IF IsArray(x) THEN x.v ELSE <<StringOf(x)>>

\* the contributions of the fed edges into n, in edge-list order
FanIn(n) ==
    LET F[i \in 0..Len(edges)] ==
            IF i = 0 THEN <<>>
            ELSE IF i \in FedEdges(n)
                 THEN F[i - 1] \o Contribution(nodeResults[edges[i].source])
                 ELSE F[i - 1]
    IN F[Len(edges)]

\* C11: when a node with two or more incoming edges whose source nodes hold
\* outputs is dequeued, its aggregated input is one flat array: the outputs
\* in edge-list order, an array giving its elements and any other output
\* itself as one string element.
C11_FanInFlat ==
    [][ ( /\ pc = "loop" /\ queue # <<>> /\ Head(queue) \in NodeIdSet
          /\ Cardinality(FedEdges(Head(queue))) >= 2 )
        => lastInput' = Arr(FanIn(Head(queue))) ]_vars

\* the node dequeued last was fed, in this order, a string and an array of
\* two elements, and its input is the array of the three
C11_Witness ==
    /\ pc = "done" /\ order # <<>>
    /\ \E i, j \in FedEdges(order[Len(order)]) :
          /\ i < j
          /\ FedEdges(order[Len(order)]) = {i, j}
          /\ IsString(nodeResults[edges[i].source])
          /\ nodeResults[edges[i].source].v[1] # <<>>
          /\ IsArray(nodeResults[edges[j].source])
          /\ Len(nodeResults[edges[j].source].v) = 2
          /\ lastInput = Arr(<<nodeResults[edges[i].source].v[1]>>
                             \o nodeResults[edges[j].source].v)

(***************************************************************************)
(* C12, C13: two calls with the same graph (SpecTwice).                    *)
(***************************************************************************)
\* the pair the pass at hand returns is the pair the call before returned
SameResults ==
    /\ nodeResults = lastReturned.nodeResults
    /\ edgeResults = lastReturned.edgeResults

C13_OnlySequenceReadsPrev ==
    (pc = "done" /\ lastReturned.called /\ SequenceIds = {}) => SameResults

\* a second call with other previous outputs than the first has returned,
\* for a graph without a SEQUENCE node in which a fed MERGE node put out an
\* array
C13_Witness ==
    /\ pc = "done" /\ lastReturned.called
    /\ lastReturned.prev # prevNodeResults
    /\ SequenceIds = {}
    /\ \E n \in NodeIdSet :
          /\ NodeOf(n).type = "MERGE" /\ Fed(n)
          /\ n \in DOMAIN nodeResults /\ IsArray(nodeResults[n])

C15_SerialPasses ==
    /\ timers <= 1
    /\ pc \in {"start", "loop", "done"} => prevNodeResults = lastReturned.nodeResults

\* a pass runs on the outputs of the pass before it, in which the SEQUENCE
\* node had made progress
C15_Witness ==
    /\ pc = "loop"
    /\ lastReturned.called
    /\ prevNodeResults = lastReturned.nodeResults
    /\ \E n \in SequenceIds :
          n \in DOMAIN prevNodeResults /\ prevNodeResults[n] = Str(<<"A">>)

(***************************************************************************)
(* C16 (SpecPipe)                                                          *)
(***************************************************************************)
BatchSizeOf(n) == NumOr(NodeOf(n).params.batchSize, 3)

\* lines i*k .. min(n, (i+1)*k) - 1 (counted from 0) of a line sequence
ChunkOf(lines, i, k) == SubSeq(lines, i * k + 1, Min(Len(lines), (i + 1) * k))

CeilDiv(n, k) == (n + k - 1) \div k

\* C16: when a BATCH node with batch size k >= 1 is dequeued with an input
\* of n lines, its output is an array of ceil(n/k) entries, entry i being
\* the description of lines i*k .. min(n, (i+1)*k) - 1; every chunk but the
\* last has k lines, the last has 1 to k lines, and the chunks in order make
\* up the input lines.
C16_BatchPartition ==
    [][ ( /\ pc = "loop" /\ queue # <<>> /\ Head(queue) \in NodeIdSet
          /\ NodeOf(Head(queue)).type = "BATCH"
          /\ BatchSizeOf(Head(queue)) >= 1
          /\ HasValue(lastInput') )
        => LET n == Head(queue)
               k == BatchSizeOf(n)
               lines == BatchLines(lastInput')
               count == CeilDiv(Len(lines), k)
           IN /\ n \in DOMAIN nodeResults'
              /\ IsArray(nodeResults'[n])
              /\ Len(nodeResults'[n].v) = count
              /\ \A i \in 0..(count - 1) :
                    /\ nodeResults'[n].v[i + 1] = BatchLabel(ChunkOf(lines, i, k))
                    /\ i < count - 1 => Len(ChunkOf(lines, i, k)) = k
                    /\ Len(ChunkOf(lines, i, k)) \in 1..k
              /\ Flat([i \in 1..count |-> ChunkOf(lines, i - 1, k)]) = lines ]_vars

\* a BATCH node of size 2 was given three lines and put out a chunk of two
\* and a chunk of one
C16_Witness ==
    /\ pc = "done"
    /\ \E n \in NodeIdSet :
          /\ NodeOf(n).type = "BATCH"
          /\ NodeOf(n).params.batchSize = <<2>>
          /\ n \in DOMAIN nodeResults
          /\ nodeResults[n] = Arr(<< BatchLabel(<< <<"b">>, <<"A">> >>),
                                     BatchLabel(<< <<"b">> >>) >>)

(***************************************************************************)
(* C17 (SpecPipe)                                                          *)
(***************************************************************************)
\* n is a PROCESS node with the given transform and the delimiter d
IsTransform(n, processType, d) ==
    /\ NodeOf(n).type = "PROCESS"
    /\ NodeOf(n).processType = <<processType>>
    /\ NodeOf(n).params.delimiter = <<d>>

\* the edge list holds an edge from x to n and no other edge into n
OnlyFedBy(n, x) ==
    /\ \E i \in 1..Len(edges) : edges[i].source = x /\ edges[i].target = n
    /\ \A i \in 1..Len(edges) : edges[i].target = n => edges[i].source = x

\* x feeds a join with delimiter d, which feeds a split with delimiter d
JoinThenSplit(x, j, s, d) ==
    /\ d # <<>>
    /\ IsTransform(j, "join", d) /\ IsTransform(s, "split", d)
    /\ OnlyFedBy(j, x) /\ OnlyFedBy(s, j)
    /\ x \in DOMAIN nodeResults /\ j \in Dequeued /\ s \in Dequeued

Delimiters == { <<",">>, <<",", ",">> }

\* where d occurs in the text s
Occurrences(s, d) ==
    { p \in 1..(Len(s) - Len(d) + 1) : SubSeq(s, p, p + Len(d) - 1) = d }

\* where the delimiters stand that a join of the lines with d puts in
Joints(lines, d) ==
    { Len(Join(SubSeq(lines, 1, k), d)) + 1 : k \in 1..(Len(lines) - 1) }

\* C17 as stated: when no line of a line sequence contains d, a join with d
\* followed by a split with d gives the line sequence back, the empty
\* sequence included.
C17_Original ==
    pc = "done" =>
        \A x, j, s \in NodeIdSet : \A d \in Delimiters :
            ( /\ JoinThenSplit(x, j, s, d)
              /\ \A i \in 1..Len(DataLines(nodeResults[x])) :
                    ~Includes(DataLines(nodeResults[x])[i], d) )
            => nodeResults[s] = Arr(DataLines(nodeResults[x]))

\* C17 amended: for a line sequence that is not empty, a join with a
\* delimiter d followed by a split with d gives the line sequence back if d
\* occurs in the joined text only where the join put it; for a delimiter of
\* one character that is the case exactly if no line contains d.
C17_RoundTrip ==
    pc = "done" =>
        \A x, j, s \in NodeIdSet : \A d \in Delimiters :
            LET lines == DataLines(nodeResults[x])
            IN ( /\ JoinThenSplit(x, j, s, d)
                 /\ lines # <<>>
                 /\ \/ Occurrences(Join(lines, d), d) = Joints(lines, d)
                    \/ /\ Len(d) = 1
                       /\ \A i \in 1..Len(lines) : ~Includes(lines[i], d) )
               => nodeResults[s] = Arr(lines)

\* three lines without a comma were joined with "," and split at "," again
C17_Witness ==
    /\ pc = "done"
    /\ \E x, j, s \in NodeIdSet :
          /\ JoinThenSplit(x, j, s, <<",">>)
          /\ Len(DataLines(nodeResults[x])) = 3
          /\ \A i \in 1..3 : ~Includes(DataLines(nodeResults[x])[i], <<",">>)
          /\ nodeResults[j] = Str(<<"b", ",", "A", ",", "b">>)
          /\ nodeResults[s] = Arr(<< <<"b">>, <<"A">>, <<"b">> >>)

(***************************************************************************)
(* C18 (SpecPipe)                                                          *)
(***************************************************************************)
\* t and s are PROCESS nodes with the given transform, s is fed by t alone
\* and t has put out a value
AppliedTwice(t, s, processType) ==
    /\ NodeOf(t).type = "PROCESS" /\ NodeOf(t).processType = <<processType>>
    /\ NodeOf(s).type = "PROCESS" /\ NodeOf(s).processType = <<processType>>
    /\ OnlyFedBy(s, t)
    /\ t \in DOMAIN nodeResults /\ s \in Dequeued

\* C18: the sort transform applied to the output of the sort transform
\* returns that output, and the dedupe transform applied to the output of
\* the dedupe transform returns that output.
C18_Idempotent ==
    pc = "done" =>
        \A t, s \in NodeIdSet :
            (AppliedTwice(t, s, "sort") \/ AppliedTwice(t, s, "uniq"))
                => s \in DOMAIN nodeResults /\ nodeResults[s] = nodeResults[t]

\* three lines in descending order were sorted, and the sorted lines were
\* sorted again
C18_Witness ==
    /\ pc = "done"
    /\ \E x, t, s \in NodeIdSet :
          /\ AppliedTwice(t, s, "sort")
          /\ OnlyFedBy(t, x)
          /\ x \in DOMAIN nodeResults
          /\ DataLines(nodeResults[x]) = << <<"b">>, <<"A">>, <<",">> >>
          /\ nodeResults[t] = Arr(<< <<",">>, <<"A">>, <<"b">> >>)
          /\ nodeResults[s] = nodeResults[t]

(***************************************************************************)
(* C19 (SpecPipe)                                                          *)
(***************************************************************************)
\* the line holds the characters of the pattern in a row, whatever their case
Matches(line, pattern) ==
    \E i \in 0..(Len(line) - Len(pattern)) :
        \A k \in 1..Len(pattern) : ToUpperChar(line[i + k]) = ToUpperChar(pattern[k])

\* the lines of the source x's text: the pieces between its line breaks
TextLines(x) == SplitLines(StringOf(SeedOf(x)))

\* a source x without incoming edges feeds the filter g alone, which feeds
\* the sink k alone
FilterChain(x, g, k) ==
    /\ x \in SourceIds /\ ZeroInDegree(x)
    /\ NodeOf(g).type = "PROCESS" /\ NodeOf(g).processType = <<"grep">>
    /\ NodeOf(k).type = "OUTPUT"
    /\ OnlyFedBy(g, x) /\ OnlyFedBy(k, g)

\* C19: after a pass over a chain source -> filter -> sink the sink's output
\* is the filter's output, and that is the array of the lines of the source
\* text that match the filter's pattern, in the order of the text.
C19_FilterChain ==
    pc = "done" =>
        \A x, g, k \in NodeIdSet :
            FilterChain(x, g, k) =>
                /\ g \in DOMAIN nodeResults /\ k \in DOMAIN nodeResults
                /\ nodeResults[k] = nodeResults[g]
                /\ nodeResults[g] =
                      Arr(SelectSeq(TextLines(x),
                             LAMBDA l : Matches(l, StrOr(NodeOf(g).params.pattern, <<>>))))

\* the log of three lines went through the filter for ERROR, and the sink
\* holds its first and its third line
C19_Witness ==
    /\ pc = "done"
    /\ \E x, g, k \in NodeIdSet :
          /\ FilterChain(x, g, k)
          /\ SeedOf(x) = Str(ErrorLog)
          /\ NodeOf(g).params.pattern = << <<"E", "R", "R", "O", "R">> >>
          /\ nodeResults[k] = Arr(<< <<"E", "R", "R", "O", "R", " ", "1">>,
                                     <<"E", "R", "R", "O", "R", " ", "3">> >>)

(***************************************************************************)
(* C20                                                                     *)
(***************************************************************************)
\* the ids of the nodes no edge points at, in node-list order
ReadyAtStart ==
    LET ready == SelectSeq(nodes, LAMBDA n : ZeroInDegree(n.id))
    IN [i \in 1..Len(ready) |-> ready[i].id]

\* the edge at position i leaves n and is the one that brings the in-degree
\* of its target to 0 when the edges that leave n are gone through in order
Releases(n, i) ==
    /\ edges[i].source = n
    /\ inDegree[edges[i].target] =
          Cardinality({ j \in 1..i : edges[j].source = n
                                       /\ edges[j].target = edges[i].target })

\* the ids whose in-degree reaches 0 when n is dequeued, in the order in
\* which they reach it
NewlyReady(n) ==
    LET F[i \in 0..Len(edges)] ==
            IF i = 0 THEN <<>>
            ELSE IF n \in NodeIdSet /\ Releases(n, i)
                 THEN Append(F[i - 1], edges[i].target)
                 ELSE F[i - 1]
    IN F[Len(edges)]

\* every existing source of an edge into a dequeued id was dequeued before it
SourcesFirst(ord) ==
    \A i \in 1..Len(edges) : \A b \in 1..Len(ord) :
        (edges[i].source \in NodeIdSet /\ ord[b] = edges[i].target)
            => \E a \in 1..(b - 1) : ord[a] = edges[i].source

\* C20: an id is dequeued only after every existing node with an edge into
\* it; the queue starts as the nodes without incoming edges in node-list
\* order, every step takes the id at its head, and the ids whose in-degree
\* reaches 0 in the step go to its tail in the order in which they reach 0.
C20_FifoTopological ==
    [][ /\ SourcesFirst(order')
        /\ pc = "start" /\ pc' = "loop" => queue' = ReadyAtStart
        /\ pc = "loop" /\ queue # <<>> =>
              /\ order' = Append(order, Head(queue))
              /\ queue' = Tail(queue) \o (IF pc' = "loop" THEN NewlyReady(Head(queue))
                                          ELSE <<>>) ]_vars

\* a finished pass in which node "2", released by node "1", was dequeued
\* after node "3", which was ready from the start
C20_Witness ==
    /\ pc = "done" /\ WellFormed
    /\ order = <<"1", "3", "2">>
    /\ \E i \in 1..Len(edges) : edges[i].source = "1" /\ edges[i].target = "2"

(***************************************************************************)
(* C21                                                                     *)
(***************************************************************************)
\* the text a source node is configured with, "" when it has none
ConfiguredText(n) ==
    IF NodeOf(n).params.pattern = <<>> THEN <<>> ELSE NodeOf(n).params.pattern[1]

\* C21: when a pass returns, every INPUT or EMITTER node without incoming
\* edges has been dequeued and has an entry in nodeResults that is its
\* configured text, the empty string when the parameter is unset.
C21_SourceKeepsText ==
    pc = "done" =>
        \A n \in SourceIds : ZeroInDegree(n) =>
            /\ n \in Dequeued
            /\ n \in DOMAIN nodeResults
            /\ nodeResults[n] = Str(ConfiguredText(n))

\* a pass has returned in which an EMITTER node without a text put out ""
\* and an INPUT node put out its text, neither having an incoming edge
C21_Witness ==
    /\ pc = "done"
    /\ \E n, m \in SourceIds :
          /\ ZeroInDegree(n) /\ ZeroInDegree(m)
          /\ NodeOf(n).type = "EMITTER" /\ NodeOf(n).params.pattern = <<>>
          /\ nodeResults[n] = Str(<<>>)
          /\ NodeOf(m).type = "INPUT" /\ nodeResults[m] = Str(<<"B", "A">>)

(***************************************************************************)
(* C22                                                                     *)
(***************************************************************************)
\* the batch size parameter of n is missing, zero or negative
BatchSizeUnusable(n) ==
    \/ NodeOf(n).params.batchSize = <<>>
    \/ NodeOf(n).params.batchSize[1] < 1

\* C22 as stated: when a BATCH node whose batch size is absent or below 1 is
\* dequeued with an input, the step completes and its output is the chunking
\* of the input lines by the default size 3.
C22_DefaultBatchSize ==
    [][ ( /\ pc = "loop" /\ queue # <<>> /\ Head(queue) \in NodeIdSet
          /\ NodeOf(Head(queue)).type = "BATCH"
          /\ BatchSizeUnusable(Head(queue))
          /\ HasValue(lastInput') )
        => /\ pc' # "hung"
           /\ Head(queue) \in DOMAIN nodeResults'
           /\ nodeResults'[Head(queue)]
                = Arr(BatchChunks(BatchLines(lastInput'), 0, 3)) ]_vars

(***************************************************************************)
(* C23 (SpecPipe)                                                          *)
(***************************************************************************)
\* the values of the ProcessType enum
ProcessTypeValues ==
    {"split", "grep", "sed", "awk", "sort", "uniq", "join", "wc", "upper", "lower"}

\* the node at the head of the queue is a PROCESS or BRANCH node and is
\* about to be given an input
TransformStep ==
    /\ pc = "loop" /\ queue # <<>> /\ Head(queue) \in NodeIdSet
    /\ NodeOf(Head(queue)).type \in {"PROCESS", "BRANCH"}
    /\ HasValue(lastInput')

SelectorUnset(n) == NodeOf(n).processType = <<>>

SelectorUnknown(n) ==
    /\ NodeOf(n).processType # <<>>
    /\ NodeOf(n).processType[1] \notin ProcessTypeValues

\* C23 as stated: a PROCESS or BRANCH node whose selector is unset or is not
\* a value of the enum puts out the lines of its input as they are, whatever
\* its other parameters.
C23_Original ==
    [][ ( /\ TransformStep
          /\ SelectorUnset(Head(queue)) \/ SelectorUnknown(Head(queue)) )
        => /\ Head(queue) \in DOMAIN nodeResults'
           /\ nodeResults'[Head(queue)] = Arr(DataLines(lastInput')) ]_vars

\* C23: a PROCESS or BRANCH node whose selector is not a value of the enum
\* puts out the lines of its input as they are, whatever its parameters; one
\* whose selector is unset puts out the lines that match its pattern
\* parameter, which are all the lines when the pattern is unset or empty.
C23_UnknownIdentityUnsetFilter ==
    [][ TransformStep
        => LET n == Head(queue)
               lines == DataLines(lastInput')
               pattern == StrOr(NodeOf(n).params.pattern, <<>>)
           IN /\ SelectorUnknown(n) =>
                   /\ n \in DOMAIN nodeResults'
                   /\ nodeResults'[n] = Arr(lines)
              /\ SelectorUnset(n) =>
                   /\ n \in DOMAIN nodeResults'
                   /\ nodeResults'[n] = Arr(SelectSeq(lines, LAMBDA l : Matches(l, pattern)))
                   /\ pattern = <<>> => nodeResults'[n] = Arr(lines) ]_vars

\* a pass has returned in which a node with the unknown selector "tee" and
\* the pattern "a" kept a line without an "a", and a node without a selector
\* and with the pattern "a" dropped such a line
C23_Witness ==
    /\ pc = "done"
    /\ \E x, n, m \in NodeIdSet :
          /\ OnlyFedBy(n, x) /\ OnlyFedBy(m, n)
          /\ SelectorUnknown(n) /\ NodeOf(n).params.pattern = << <<"a">> >>
          /\ SelectorUnset(m) /\ NodeOf(m).params.pattern = << <<"a">> >>
          /\ nodeResults[x] = Str(<<"b", "\n", "A">>)
          /\ nodeResults[n] = Arr(<< <<"b">>, <<"A">> >>)
          /\ nodeResults[m] = Arr(<< <<"A">> >>)

(***************************************************************************)
(* C25                                                                     *)
(***************************************************************************)
\* C25: at every point of a pass every in-degree counter is at least 0 and
\* no id has been dequeued twice, whatever the edge list: repeated edges and
\* edges with a missing end included.
C25_CountersAndOnce ==
    /\ \A k \in DOMAIN inDegree : inDegree[k] >= 0
    /\ \A i, j \in 1..Len(order) : order[i] = order[j] => i = j

\* a pass has returned over an edge list that holds the same edge twice:
\* the counter of its target went 2, 1, 0 and the target was dequeued
C25_Witness ==
    /\ pc = "done"
    /\ Len(edges) = 2
    /\ edges[1].source = edges[2].source /\ edges[1].target = edges[2].target
    /\ edges[1].source \in NodeIdSet /\ edges[1].target \in NodeIdSet
    /\ edges[1].source # edges[1].target
    /\ inDegree[edges[1].target] = 0
    /\ edges[1].target \in Dequeued

(***************************************************************************)
(* C26 (SpecApp)                                                           *)
(***************************************************************************)
\* C26 as stated: the first pass over the nodes and edges of a generated
\* flow is given the empty map as previous outputs, whatever ran between
\* handleGenerate and that pass.
C26_FirstPassStartsEmpty ==
    (replacement = "first" /\ pc \in {"start", "loop", "done"})
        => prevNodeResults = EmptyMap

(***************************************************************************)
(* C24 (SpecTick)                                                          *)
(***************************************************************************)
\* the flag of a streaming source is true or unset
Running(node) == node.type = "EMITTER" /\ node.isActive \in { <<>>, <<TRUE>> }

\* C24: a tick leaves the edge list and the number and order of the nodes as
\* they are; a node that is not a streaming source and a streaming source
\* whose flag is false are unchanged, and a streaming source whose flag is
\* true or unset is changed in its text buffer at most.
C24_TickTouchesRunningBuffers ==
    [][ Tick =>
          /\ flowEdges' = flowEdges
          /\ Len(flowNodes') = Len(flowNodes)
          /\ \A i \in 1..Len(flowNodes) :
                IF Running(flowNodes[i])
                THEN [flowNodes'[i] EXCEPT !.params.pattern = flowNodes[i].params.pattern]
                        = flowNodes[i]
                ELSE flowNodes'[i] = flowNodes[i] ]_vars

\* a tick came while one streaming source was paused: it still has no text,
\* the running one beside it has got some
C24_Witness ==
    /\ renderPending
    /\ \E i, j \in 1..Len(flowNodes) :
          /\ flowNodes[i].type = "EMITTER" /\ flowNodes[i].isActive = <<FALSE>>
          /\ flowNodes[i].params.pattern = <<>>
          /\ Running(flowNodes[j]) /\ flowNodes[j].isActive = <<>>
          /\ flowNodes[j].params.pattern # <<>>
          /\ flowNodes[3].type = "SEQUENCE"

(***************************************************************************)
(* C27 (SpecLive)                                                          *)
(***************************************************************************)
\* the SEQUENCE nodes of the graph the application starts with
LiveSequenceIds ==
    { INITIAL_NODES[i].id : i \in { j \in 1..Len(INITIAL_NODES) :
                                      INITIAL_NODES[j].type = "SEQUENCE" } }

\* the output n has put out last: in the pass that is running if it has got
\* to n, else the one kept from the pass that returned last
LatestOutput(n) ==
    IF n \in DOMAIN nodeResults THEN nodeResults[n]
    ELSE IF n \in DOMAIN prevRef THEN prevRef[n]
    ELSE Str(<<>>)

\* the progress of n is the whole target
Complete(n) ==
    /\ n \in NodeIdSet
    /\ LatestOutput(n) = Str(TargetOf(n))

\* a pass is about to evaluate n, which is not complete, and the target
\* character n needs next is in its input buffer
NeededSeen(n) ==
    /\ pc = "loop" /\ queue # <<>> /\ Head(queue) = n
    /\ n \in NodeIdSet
    /\ Len(PrevProgress(n)) < Len(TargetOf(n))
    /\ TargetOf(n)[Len(PrevProgress(n)) + 1] \in BufferChars(n)

\* C27 as stated: if, whenever the node is not complete, a later pass has
\* the needed character in the node's input buffer, then from some point on
\* the node's progress is the target for good.  (In SpecLive passes keep
\* occurring and the node has an input in every pass.)
C27_Original ==
    \A n \in LiveSequenceIds :
        ((~Complete(n)) ~> NeededSeen(n)) => <>[]Complete(n)

\* C27: the same, provided that from some point on no generated flow
\* replaces the graph.
C27_CompleteForGood ==
    \A n \in LiveSequenceIds :
        ( /\ <>[](replacement # "pending")
          /\ (~Complete(n)) ~> NeededSeen(n) )
        => <>[]Complete(n)

\* a pass over the graph returned in which the node, complete before it,
\* put out its target again
C27_Witness ==
    /\ pc = "done"
    /\ \E n \in LiveSequenceIds :
          /\ n \in DOMAIN prevNodeResults /\ n \in DOMAIN nodeResults
          /\ prevNodeResults[n] = Str(TargetOf(n))
          /\ nodeResults[n] = Str(TargetOf(n))
          /\ lastReturned.called

====
